---------------------------- MODULE Spec2Model ----------------------------
(***************************************************************************)
(* Conway's Game of Life (src/src/main.py): the grid, the generation       *)
(* advance update_grid, the cell edit toggle_cell and the pygame main      *)
(* loop that drives them.                                                  *)
(*                                                                         *)
(* The source fixes ROWS = COLS = 50.  The grid dimensions are read by     *)
(* update_grid and toggle_cell as module globals; here they are chosen at  *)
(* construction from small ranges and never change afterwards.             *)
(***************************************************************************)
EXTENDS Integers, FiniteSets, Sequences, TLC

VARIABLES
    ROWS,           \* number of grid rows    (global, main.py:10)
    COLS,           \* number of grid columns (global, main.py:11)
    grid,           \* grid[row][col] \in {0, 1}, zero-based
    cell_color,     \* index into cell_colors
    speed,          \* refresh rate in FPS
    wrap_enabled,   \* edge wrapping mode
    draw_mode,      \* TRUE: draw, FALSE: erase
    app_state,      \* START_MENU or GAME
    mouse_held,
    playing,
    running,
    pc,             \* "loop": inside `while running`; "exit": after it
    call            \* history: the engine call made by the last step

vars == <<ROWS, COLS, grid, cell_color, speed, wrap_enabled, draw_mode,
          app_state, mouse_held, playing, running, pc, call>>

---------------------------------------------------------------------------
(* Bounds of the model.                                                    *)

\* Main loop (Spec): grids of up to MaxRows x MaxCols, of at most MaxCells
\* cells.
MaxRows == 2
MaxCols == 2
MaxCells == 4
\* Generation advance (SpecAdvance): every grid of up to EnumRows x EnumCols,
\* of at most EnumCells cells, and the named patterns on every grid of up to
\* PatternDim x PatternDim.
EnumRows == 4
EnumCols == 4
EnumCells == 12
PatternDim == 6
\* The least dimension tried at the start of the program is 0 - LowDim.
LowDim == 1

---------------------------------------------------------------------------
(* Program constants.                                                      *)

GRID_WIDTH == 800
PANEL_WIDTH == 250
WINDOW_WIDTH == GRID_WIDTH + PANEL_WIDTH
CELL_SIZE == GRID_WIDTH \div COLS

\* cell_colors, by index: Green, Red, Blue, Yellow
NumColors == 4
GREEN == 0

START_MENU == 0
GAME == 1

min_speed == 1
max_speed == 60
InitialSpeed == 10

\* pygame.Rect(x, y, w, h)
Rect(x, y, w, h) == [x |-> x, y |-> y, width |-> w, height |-> h]

panel_buttons ==
    [color       |-> Rect(GRID_WIDTH + 35, 230, 180, 40),
     wrap        |-> Rect(GRID_WIDTH + 35, 280, 180, 40),
     draw_toggle |-> Rect(GRID_WIDTH + 35, 330, 180, 40)]

start_menu_buttons ==
    [color |-> Rect(WINDOW_WIDTH \div 2 - 90, 410, 180, 40),
     wrap  |-> Rect(WINDOW_WIDTH \div 2 - 90, 460, 180, 40),
     start |-> Rect(WINDOW_WIDTH \div 2 - 110, 200, 220, 60)]

slider_rect == Rect(GRID_WIDTH + 35, 430, 180, 10)
start_slider_rect == Rect(WINDOW_WIDTH \div 2 - 90, 550, 180, 10)

\* pygame.Rect.collidepoint: left and top edges inside, right and bottom outside
collidepoint(rect, pos) ==
    /\ rect.x <= pos[1] /\ pos[1] < rect.x + rect.width
    /\ rect.y <= pos[2] /\ pos[2] < rect.y + rect.height

---------------------------------------------------------------------------
(* The engine.                                                             *)

\* A reset that fills the grid with ones (np.ones for np.zeros).
zeros_ones(n, m) == [row \in 0..(n - 1) |-> [col \in 0..(m - 1) |-> 1]]
\* np.zeros((n, m), dtype=int)
zeros(n, m) == [row \in 0..(n - 1) |-> [col \in 0..(m - 1) |-> 0]]

Offsets == <<-1, 0, 1>>

\* `r %= ROWS; c %= COLS` (lines 219-220): the wrapped coordinate.
wrapped_coord(r, c) == <<r % ROWS, c % COLS>>

\* One pass of the inner loops of update_grid (lines 215-223): what the
\* offset (i, j) adds to alive_neighbors of (row, col).
neighbor_term(g, row, col, i, j, wrap) ==
    IF i = 0 /\ j = 0
    THEN 0
    ELSE LET r == row + i
             c == col + j
         IN  IF wrap
             THEN g[wrapped_coord(r, c)[1]][wrapped_coord(r, c)[2]]
             ELSE IF 0 <= r /\ r < ROWS /\ 0 <= c /\ c < COLS
                  THEN g[r][c]
                  ELSE 0

\* The loops `for i in [-1, 0, 1]: for j in [-1, 0, 1]` from position k on.
RECURSIVE neighbor_loop(_, _, _, _, _)
neighbor_loop(g, row, col, wrap, k) ==
    IF k = 9
    THEN 0
    ELSE neighbor_term(g, row, col, Offsets[(k \div 3) + 1], Offsets[(k % 3) + 1], wrap)
         + neighbor_loop(g, row, col, wrap, k + 1)

\* A count that lacks the test `i == 0 and j == 0`: the cell counts itself.
alive_neighbors_self(g, row, col, wrap) ==
    neighbor_loop(g, row, col, wrap, 0) + g[row][col]
\* A count that never wraps: the bounded branch taken for either flag.
alive_neighbors_never_wraps(g, row, col, wrap) ==
    LET term(i, j) ==
            IF i = 0 /\ j = 0 THEN 0
            ELSE IF 0 <= row + i /\ row + i < ROWS /\ 0 <= col + j /\ col + j < COLS
                 THEN g[row + i][col + j] ELSE 0
    IN  term(-1, -1) + term(-1, 0) + term(-1, 1) + term(0, -1) + term(0, 1)
        + term(1, -1) + term(1, 0) + term(1, 1)
\* A bounded count that moves an out-of-range index to the nearest edge
\* instead of leaving the neighbour out.
alive_neighbors_edge_clamped(g, row, col, wrap) ==
    LET term(i, j) ==
            IF i = 0 /\ j = 0 THEN 0
            ELSE IF wrap THEN g[(row + i) % ROWS][(col + j) % COLS]
                 ELSE g[IF row + i < 0 THEN 0 ELSE IF row + i >= ROWS THEN ROWS - 1 ELSE row + i]
                       [IF col + j < 0 THEN 0 ELSE IF col + j >= COLS THEN COLS - 1 ELSE col + j]
    IN  term(-1, -1) + term(-1, 0) + term(-1, 1) + term(0, -1) + term(0, 1)
        + term(1, -1) + term(1, 0) + term(1, 1)
\* alive_neighbors of (row, col) as update_grid computes it from grid g
\* (lines 212-223).
alive_neighbors(g, row, col, wrap) == neighbor_loop(g, row, col, wrap, 0)

\* The game rules (lines 226-229) applied to one cell: new_grid after the
\* loop body for (row, col), the count taken in the old grid g.
apply_rules(g, new_grid, row, col, wrap) ==
    LET n == alive_neighbors(g, row, col, wrap)
    IN  IF g[row][col] = 1 /\ (n < 2 \/ n > 3)
        THEN [new_grid EXCEPT ![row][col] = 0]
        ELSE IF g[row][col] = 0 /\ n = 3
             THEN [new_grid EXCEPT ![row][col] = 1]
             ELSE new_grid

\* The loops `for row in range(ROWS): for col in range(COLS)` from cell k on.
RECURSIVE update_loop(_, _, _, _)
update_loop(g, new_grid, wrap, k) ==
    IF k = ROWS * COLS
    THEN new_grid
    ELSE update_loop(g, apply_rules(g, new_grid, k \div COLS, k % COLS, wrap),
                     wrap, k + 1)

\* An update that reads the counts from the grid being written.
RECURSIVE update_loop_in_place(_, _, _)
update_loop_in_place(new_grid, wrap, k) ==
    IF k = ROWS * COLS
    THEN new_grid
    ELSE update_loop_in_place(
             apply_rules(new_grid, new_grid, k \div COLS, k % COLS, wrap),
             wrap, k + 1)

update_grid_in_place(g, wrap) == update_loop_in_place(g, wrap, 0)

\* update_grid skipping the advance while the left button is held.
update_grid_frozen_while_held(g, wrap) ==
    IF mouse_held THEN g ELSE update_loop(g, g, wrap, 0)

\* An update without the birth branch (lines 228-229).
update_grid_no_birth(g, wrap) ==
    [row \in 0..(ROWS - 1) |-> [col \in 0..(COLS - 1) |->
        IF g[row][col] = 1 /\ alive_neighbors(g, row, col, wrap) \in {2, 3}
        THEN 1 ELSE 0]]
\* An update whose birth test is `alive_neighbors in (2, 3)`.
update_grid_birth_on_two(g, wrap) ==
    [row \in 0..(ROWS - 1) |-> [col \in 0..(COLS - 1) |->
        LET n == alive_neighbors(g, row, col, wrap)
        IN  IF g[row][col] = 1 THEN (IF n \in {2, 3} THEN 1 ELSE 0)
            ELSE (IF n \in {2, 3} THEN 1 ELSE 0)]]
\* An update whose birth test is `alive_neighbors <= 3`.
update_grid_birth_below_three(g, wrap) ==
    [row \in 0..(ROWS - 1) |-> [col \in 0..(COLS - 1) |->
        LET n == alive_neighbors(g, row, col, wrap)
        IN  IF g[row][col] = 1 THEN (IF n \in {2, 3} THEN 1 ELSE 0)
            ELSE (IF n <= 3 THEN 1 ELSE 0)]]
\* update_grid(grid, wrap): new_grid = np.copy(grid), then the loops.
update_grid(g, wrap) == update_loop(g, g, wrap, 0)

\* toggle_cell adding 1 to the cell in draw mode instead of storing 1.
toggle_cell_increment(g, pos, mode) ==
    LET col == pos[1] \div CELL_SIZE
        row == pos[2] \div CELL_SIZE
    IN  IF 0 <= row /\ row < ROWS /\ 0 <= col /\ col < COLS
        THEN [g EXCEPT ![row][col] = IF mode THEN @ + 1 ELSE 0]
        ELSE g

\* A toggle that flips the cell.
toggle_cell_flip(g, pos, mode) ==
    LET col == pos[1] \div CELL_SIZE
        row == pos[2] \div CELL_SIZE
    IN  IF 0 <= row /\ row < ROWS /\ 0 <= col /\ col < COLS
        THEN [g EXCEPT ![row][col] = 1 - g[row][col]]
        ELSE g
\* A toggle that lacks the tests `0 <=`: numpy takes a negative index from
\* the end of the axis.
toggle_cell_negative_index(g, pos, mode) ==
    LET col == pos[1] \div CELL_SIZE
        row == pos[2] \div CELL_SIZE
    IN  IF row < ROWS /\ col < COLS /\ row >= -ROWS /\ col >= -COLS
        THEN [g EXCEPT ![row % ROWS][col % COLS] = IF mode THEN 1 ELSE 0]
        ELSE g
\* toggle_cell(grid, pos, draw_mode): the grid after the call.
toggle_cell(g, pos, mode) ==
    LET col == pos[1] \div CELL_SIZE
        row == pos[2] \div CELL_SIZE
    IN  IF 0 <= row /\ row < ROWS /\ 0 <= col /\ col < COLS
        THEN [g EXCEPT ![row][col] = IF mode THEN 1 ELSE 0]
        ELSE g

\* The speed a slider gives for the pointer at pos (lines 282-284, 300-302).
slider_speed(rect, pos) ==
    LET rel_x == pos[1] - rect.x
        clamped == IF rel_x < 0 THEN 0
                   ELSE IF rel_x > rect.width THEN rect.width ELSE rel_x
    IN  min_speed + (clamped * (max_speed - min_speed)) \div rect.width

---------------------------------------------------------------------------
(* Inputs of the main loop.                                                *)

\* Pointer positions (x, y) = (pos[1], pos[2]): the centre of every cell,
\* one point beyond each edge of the grid (the pointer is tracked outside
\* the window while a button is held; the point to the right lies over the
\* side panel), and one point of every widget.
CellCentre(row, col) ==
    <<col * CELL_SIZE + CELL_SIZE \div 2, row * CELL_SIZE + CELL_SIZE \div 2>>

RectCentre(rect) ==
    <<rect.x + rect.width \div 2, rect.y + rect.height \div 2>>

InsidePositions ==
    {CellCentre(row, col) : row \in 0..(ROWS - 1), col \in 0..(COLS - 1)}

OutsidePositions ==
    {CellCentre(-1, 0), CellCentre(ROWS, 0), CellCentre(0, -1), CellCentre(0, COLS)}

WidgetPositions ==
    {RectCentre(panel_buttons.color), RectCentre(panel_buttons.wrap),
     RectCentre(panel_buttons.draw_toggle), RectCentre(slider_rect),
     RectCentre(start_menu_buttons.color), RectCentre(start_menu_buttons.wrap),
     RectCentre(start_menu_buttons.start), RectCentre(start_slider_rect)}

Positions == InsidePositions \cup OutsidePositions \cup WidgetPositions

\* event.button: the left button and one other; pos is read for the left
\* button only (line 270).
MouseButtons == {1, 3}
Keys == {"K_SPACE", "K_r", "K_RETURN"}

---------------------------------------------------------------------------
(* History: the engine call the last step made, with its arguments and the *)
(* grid it was made on.                                                    *)

NoCall == [fn |-> "none"]
UpdateCall(g, wrap) == [fn |-> "update_grid", grid |-> g, wrap |-> wrap]
ToggleCall(g, pos, mode) ==
    [fn |-> "toggle_cell", grid |-> g, pos |-> pos, draw_mode |-> mode]
ZerosCall(g) == [fn |-> "zeros", grid |-> g]

---------------------------------------------------------------------------
(* The main loop: one action per event type, and the end of the event loop *)

\* Line 37 and lines 40-48, 248-250.
Init ==
    /\ ROWS \in 1..MaxRows
    /\ COLS \in 1..MaxCols
    /\ ROWS * COLS <= MaxCells
    /\ grid = zeros(ROWS, COLS)
    /\ cell_color = GREEN
    /\ speed = InitialSpeed
    /\ wrap_enabled = TRUE
    /\ draw_mode = TRUE
    /\ app_state = START_MENU
    /\ mouse_held = FALSE
    /\ playing = FALSE
    /\ running = TRUE
    /\ pc = "loop"
    /\ call = NoCall

\* pygame.QUIT (lines 265-266)
Quit ==
    /\ pc = "loop"
    /\ running' = FALSE
    /\ call' = NoCall
    /\ UNCHANGED <<ROWS, COLS, grid, cell_color, speed, wrap_enabled, draw_mode,
                   app_state, mouse_held, playing, pc>>

\* Left click in the start menu (lines 273-284)
StartMenuClick(pos) ==
    /\ cell_color' =
           IF collidepoint(start_menu_buttons.color, pos)
           THEN (cell_color + 1) % NumColors ELSE cell_color
    /\ wrap_enabled' =
           IF /\ ~collidepoint(start_menu_buttons.color, pos)
              /\ collidepoint(start_menu_buttons.wrap, pos)
           THEN ~wrap_enabled ELSE wrap_enabled
    /\ app_state' =
           IF /\ ~collidepoint(start_menu_buttons.color, pos)
              /\ ~collidepoint(start_menu_buttons.wrap, pos)
              /\ collidepoint(start_menu_buttons.start, pos)
           THEN GAME ELSE app_state
    /\ speed' =
           IF /\ ~collidepoint(start_menu_buttons.color, pos)
              /\ ~collidepoint(start_menu_buttons.wrap, pos)
              /\ ~collidepoint(start_menu_buttons.start, pos)
              /\ collidepoint(start_slider_rect, pos)
           THEN slider_speed(start_slider_rect, pos) ELSE speed
    /\ call' = NoCall
    /\ UNCHANGED <<grid, draw_mode, mouse_held>>

\* GameClick whose panel buttons and slider work while the simulation runs.
GameClick_panel_while_playing(pos) ==
    /\ IF pos[1] < GRID_WIDTH /\ ~playing
       THEN /\ mouse_held' = TRUE
            /\ grid' = toggle_cell(grid, pos, draw_mode)
            /\ call' = ToggleCall(grid, pos, draw_mode)
       ELSE /\ UNCHANGED <<mouse_held, grid>>
            /\ call' = NoCall
    /\ cell_color' =
           IF collidepoint(panel_buttons.color, pos)
           THEN (cell_color + 1) % NumColors ELSE cell_color
    /\ wrap_enabled' =
           IF /\ ~collidepoint(panel_buttons.color, pos)
              /\ collidepoint(panel_buttons.wrap, pos)
           THEN ~wrap_enabled ELSE wrap_enabled
    /\ draw_mode' =
           IF /\ ~collidepoint(panel_buttons.color, pos)
              /\ ~collidepoint(panel_buttons.wrap, pos)
              /\ collidepoint(panel_buttons.draw_toggle, pos)
           THEN ~draw_mode ELSE draw_mode
    /\ speed' =
           IF /\ ~collidepoint(panel_buttons.color, pos)
              /\ ~collidepoint(panel_buttons.wrap, pos)
              /\ ~collidepoint(panel_buttons.draw_toggle, pos)
              /\ collidepoint(slider_rect, pos)
           THEN slider_speed(slider_rect, pos) ELSE speed
    /\ UNCHANGED app_state

\* Left click during the game (lines 287-302)
GameClick(pos) ==
    /\ IF pos[1] < GRID_WIDTH /\ ~playing
       THEN /\ mouse_held' = TRUE
            /\ grid' = toggle_cell(grid, pos, draw_mode)
            /\ call' = ToggleCall(grid, pos, draw_mode)
       ELSE /\ UNCHANGED <<mouse_held, grid>>
            /\ call' = NoCall
    /\ cell_color' =
           IF ~playing /\ collidepoint(panel_buttons.color, pos)
           THEN (cell_color + 1) % NumColors ELSE cell_color
    /\ wrap_enabled' =
           IF /\ ~playing
              /\ ~collidepoint(panel_buttons.color, pos)
              /\ collidepoint(panel_buttons.wrap, pos)
           THEN ~wrap_enabled ELSE wrap_enabled
    /\ draw_mode' =
           IF /\ ~playing
              /\ ~collidepoint(panel_buttons.color, pos)
              /\ ~collidepoint(panel_buttons.wrap, pos)
              /\ collidepoint(panel_buttons.draw_toggle, pos)
           THEN ~draw_mode ELSE draw_mode
    /\ speed' =
           IF /\ ~playing
              /\ ~collidepoint(panel_buttons.color, pos)
              /\ ~collidepoint(panel_buttons.wrap, pos)
              /\ ~collidepoint(panel_buttons.draw_toggle, pos)
              /\ collidepoint(slider_rect, pos)
           THEN slider_speed(slider_rect, pos) ELSE speed
    /\ UNCHANGED app_state

\* pygame.MOUSEBUTTONDOWN (lines 268-302); pos = pygame.mouse.get_pos()
MouseButtonDown(button, pos) ==
    /\ pc = "loop"
    /\ IF button = 1
       THEN IF app_state = START_MENU
            THEN StartMenuClick(pos)
            ELSE GameClick(pos)
       ELSE /\ call' = NoCall
            /\ UNCHANGED <<grid, cell_color, speed, wrap_enabled, draw_mode,
                           app_state, mouse_held>>
    /\ UNCHANGED <<ROWS, COLS, playing, running, pc>>

\* pygame.MOUSEBUTTONUP (lines 304-306)
MouseButtonUp(button) ==
    /\ pc = "loop"
    /\ mouse_held' = IF button = 1 THEN FALSE ELSE mouse_held
    /\ call' = NoCall
    /\ UNCHANGED <<ROWS, COLS, grid, cell_color, speed, wrap_enabled, draw_mode,
                   app_state, playing, running, pc>>

\* MouseMotion whose drag lacks the test `not playing`.
MouseMotion_ignores_playing(pos, pressed) ==
    /\ pc = "loop"
    /\ IF mouse_held /\ app_state = GAME
       THEN /\ grid' = toggle_cell(grid, pos, draw_mode)
            /\ call' = ToggleCall(grid, pos, draw_mode)
            /\ UNCHANGED speed
       ELSE /\ speed' =
                  IF ~playing /\ pressed
                  THEN IF app_state = START_MENU /\ collidepoint(start_slider_rect, pos)
                       THEN slider_speed(start_slider_rect, pos)
                       ELSE IF app_state = GAME /\ collidepoint(slider_rect, pos)
                            THEN slider_speed(slider_rect, pos)
                            ELSE speed
                  ELSE speed
            /\ call' = NoCall
            /\ UNCHANGED grid
    /\ UNCHANGED <<ROWS, COLS, cell_color, wrap_enabled, draw_mode, app_state,
                   mouse_held, playing, running, pc>>

\* pygame.MOUSEMOTION (lines 308-320); pos = pygame.mouse.get_pos(),
\* pressed = pygame.mouse.get_pressed()[0]
MouseMotion(pos, pressed) ==
    /\ pc = "loop"
    /\ IF mouse_held /\ ~playing /\ app_state = GAME
       THEN /\ grid' = toggle_cell(grid, pos, draw_mode)
            /\ call' = ToggleCall(grid, pos, draw_mode)
            /\ UNCHANGED speed
       ELSE /\ speed' =
                  IF ~playing /\ pressed
                  THEN IF app_state = START_MENU /\ collidepoint(start_slider_rect, pos)
                       THEN slider_speed(start_slider_rect, pos)
                       ELSE IF app_state = GAME /\ collidepoint(slider_rect, pos)
                            THEN slider_speed(slider_rect, pos)
                            ELSE speed
                  ELSE speed
            /\ call' = NoCall
            /\ UNCHANGED grid
    /\ UNCHANGED <<ROWS, COLS, cell_color, wrap_enabled, draw_mode, app_state,
                   mouse_held, playing, running, pc>>

\* What a MOUSEMOTION event reads: get_pressed() only when the first test
\* (line 309) fails, get_pos() only in a branch that is taken.
MotionPressed ==
    IF mouse_held /\ ~playing /\ app_state = GAME THEN {FALSE} ELSE BOOLEAN

MotionReadsPos(pressed) ==
    \/ mouse_held /\ ~playing /\ app_state = GAME
    \/ ~playing /\ pressed

\* KeyDown that lacks the tests `app_state == GAME`.
KeyDown_in_any_state(key) ==
    /\ pc = "loop"
    /\ playing' = IF key = "K_SPACE" THEN ~playing ELSE playing
    /\ IF key = "K_r"
       THEN /\ grid' = zeros(ROWS, COLS)
            /\ call' = ZerosCall(grid)
       ELSE /\ UNCHANGED grid
            /\ call' = NoCall
    /\ UNCHANGED <<ROWS, COLS, cell_color, speed, wrap_enabled, draw_mode,
                   app_state, mouse_held, running, pc>>

\* KeyDown whose SPACE also ends a drag.
KeyDown_space_releases(key) ==
    /\ pc = "loop"
    /\ playing' = IF key = "K_SPACE" /\ app_state = GAME THEN ~playing ELSE playing
    /\ mouse_held' = IF key = "K_SPACE" /\ app_state = GAME THEN FALSE ELSE mouse_held
    /\ IF ~(key = "K_SPACE" /\ app_state = GAME) /\ key = "K_r" /\ app_state = GAME
       THEN /\ grid' = zeros(ROWS, COLS)
            /\ call' = ZerosCall(grid)
       ELSE /\ UNCHANGED grid
            /\ call' = NoCall
    /\ UNCHANGED <<ROWS, COLS, cell_color, speed, wrap_enabled, draw_mode,
                   app_state, running, pc>>

\* KeyDown whose reset also pauses the simulation.
KeyDown_reset_pauses(key) ==
    /\ pc = "loop"
    /\ playing' =
           IF key = "K_SPACE" /\ app_state = GAME THEN ~playing
           ELSE IF key = "K_r" /\ app_state = GAME THEN FALSE
           ELSE playing
    /\ IF ~(key = "K_SPACE" /\ app_state = GAME) /\ key = "K_r" /\ app_state = GAME
       THEN /\ grid' = zeros(ROWS, COLS)
            /\ call' = ZerosCall(grid)
       ELSE /\ UNCHANGED grid
            /\ call' = NoCall
    /\ UNCHANGED <<ROWS, COLS, cell_color, speed, wrap_enabled, draw_mode,
                   app_state, mouse_held, running, pc>>

\* pygame.KEYDOWN (lines 322-326)
KeyDown(key) ==
    /\ pc = "loop"
    /\ playing' = IF key = "K_SPACE" /\ app_state = GAME THEN ~playing ELSE playing
    /\ IF ~(key = "K_SPACE" /\ app_state = GAME) /\ key = "K_r" /\ app_state = GAME
       THEN /\ grid' = zeros(ROWS, COLS)
            /\ call' = ZerosCall(grid)
       ELSE /\ UNCHANGED grid
            /\ call' = NoCall
    /\ UNCHANGED <<ROWS, COLS, cell_color, speed, wrap_enabled, draw_mode,
                   app_state, mouse_held, running, pc>>

\* Tick that lacks the test `playing`.
Tick_while_paused ==
    /\ pc = "loop"
    /\ IF app_state = GAME
       THEN /\ grid' = update_grid(grid, wrap_enabled)
            /\ call' = UpdateCall(grid, wrap_enabled)
       ELSE /\ UNCHANGED grid
            /\ call' = NoCall
    /\ pc' = IF running THEN "loop" ELSE "exit"
    /\ UNCHANGED <<ROWS, COLS, cell_color, speed, wrap_enabled, draw_mode,
                   app_state, mouse_held, playing, running>>

\* Tick that passes True, the initial value of wrap_enabled, instead of the
\* variable.
Tick_initial_wrap ==
    /\ pc = "loop"
    /\ IF app_state = GAME /\ playing
       THEN /\ grid' = update_grid(grid, TRUE)
            /\ call' = UpdateCall(grid, TRUE)
       ELSE /\ UNCHANGED grid
            /\ call' = NoCall
    /\ pc' = IF running THEN "loop" ELSE "exit"
    /\ UNCHANGED <<ROWS, COLS, cell_color, speed, wrap_enabled, draw_mode,
                   app_state, mouse_held, playing, running>>

\* The end of one pass of `while running` (lines 328-333 and 252): the
\* update of the grid, then the loop test.
Tick ==
    /\ pc = "loop"
    /\ IF app_state = GAME /\ playing
       THEN /\ grid' = update_grid(grid, wrap_enabled)
            /\ call' = UpdateCall(grid, wrap_enabled)
       ELSE /\ UNCHANGED grid
            /\ call' = NoCall
    /\ pc' = IF running THEN "loop" ELSE "exit"
    /\ UNCHANGED <<ROWS, COLS, cell_color, speed, wrap_enabled, draw_mode,
                   app_state, mouse_held, playing, running>>

Next ==
    \/ Quit
    \/ \E button \in MouseButtons :
          \E pos \in (IF button = 1 THEN Positions ELSE {<<0, 0>>}) :
              MouseButtonDown(button, pos)
    \/ \E button \in MouseButtons : MouseButtonUp(button)
    \/ \E pressed \in MotionPressed :
          \E pos \in (IF MotionReadsPos(pressed) THEN Positions ELSE {<<0, 0>>}) :
              MouseMotion(pos, pressed)
    \/ \E key \in Keys : KeyDown(key)
    \/ Tick

Spec == Init /\ [][Next]_vars

---------------------------------------------------------------------------
(* The generation advance on its own: the game is running on any grid a    *)
(* paused player can have drawn, under either topology, and nothing is     *)
(* edited.  Small grids are enumerated in full; larger ones carry the      *)
(* named patterns.                                                         *)

AllGrids(n, m) == [0..(n - 1) -> [0..(m - 1) -> {0, 1}]]

\* The n x m grid whose alive cells are exactly those of `cells`.
GridOf(n, m, cells) ==
    [row \in 0..(n - 1) |-> [col \in 0..(m - 1) |->
        IF <<row, col>> \in cells THEN 1 ELSE 0]]

Cells == (0..(ROWS - 1)) \X (0..(COLS - 1))

HorizontalTriple == {<<2, 1>>, <<2, 2>>, <<2, 3>>}
VerticalTriple == {<<1, 2>>, <<2, 2>>, <<3, 2>>}
Block == {<<1, 1>>, <<1, 2>>, <<2, 1>>, <<2, 2>>}

PatternGrids(n, m) ==
    {GridOf(n, m, {}), GridOf(n, m, (0..(n - 1)) \X (0..(m - 1)))}
    \cup (IF n >= 3 /\ m >= 4 THEN {GridOf(n, m, HorizontalTriple)} ELSE {})
    \cup (IF n >= 3 /\ m >= 3 THEN {GridOf(n, m, Block)} ELSE {})

InitAdvance ==
    /\ ROWS \in 1..PatternDim
    /\ COLS \in 1..PatternDim
    /\ grid \in (IF ROWS <= EnumRows /\ COLS <= EnumCols /\ ROWS * COLS <= EnumCells
                 THEN AllGrids(ROWS, COLS)
                 ELSE PatternGrids(ROWS, COLS))
    /\ wrap_enabled \in BOOLEAN
    /\ cell_color = GREEN
    /\ speed = InitialSpeed
    /\ draw_mode = TRUE
    /\ app_state = GAME
    /\ mouse_held = FALSE
    /\ playing = TRUE
    /\ running = TRUE
    /\ pc = "loop"
    /\ call = NoCall

NextAdvance ==
    \/ Tick
    \/ \E key \in Keys : KeyDown(key)

SpecAdvance == InitAdvance /\ [][NextAdvance]_vars

---------------------------------------------------------------------------
(* The start of the program, for values of ROWS and COLS (lines 10-11)     *)
(* that need not be positive: the statements of the module that read them  *)
(* before the main loop, followed by the main loop.                        *)

\* `grid` before line 37 has run: the name is not bound.
Unbound == "unbound"

Errors == {"ZeroDivisionError", "ValueError"}

ConstructCall == [fn |-> "construct"]

\* Line 12, `CELL_SIZE = GRID_WIDTH // COLS`, raises ZeroDivisionError for
\* COLS = 0; line 37, `np.zeros((ROWS, COLS), dtype=int)`, raises ValueError
\* for a negative dimension and returns an array with no element for a
\* dimension of 0.  An exception at module level ends the program.
Construct ==
    /\ pc = "import"
    /\ IF COLS = 0
       THEN /\ pc' = "ZeroDivisionError"
            /\ call' = NoCall
            /\ UNCHANGED grid
       ELSE IF ROWS < 0 \/ COLS < 0
            THEN /\ pc' = "ValueError"
                 /\ call' = NoCall
                 /\ UNCHANGED grid
            ELSE /\ pc' = "loop"
                 /\ call' = ConstructCall
                 /\ grid' = zeros(ROWS, COLS)
    /\ UNCHANGED <<ROWS, COLS, cell_color, speed, wrap_enabled, draw_mode,
                   app_state, mouse_held, playing, running>>

\* The settings of lines 40-48 and 248-250 are literals: they are shown
\* with their values from the start.
InitConstruct ==
    /\ ROWS \in (0 - LowDim)..MaxRows
    /\ COLS \in (0 - LowDim)..MaxCols
    /\ ROWS * COLS <= MaxCells
    /\ grid = Unbound
    /\ cell_color = GREEN
    /\ speed = InitialSpeed
    /\ wrap_enabled = TRUE
    /\ draw_mode = TRUE
    /\ app_state = START_MENU
    /\ mouse_held = FALSE
    /\ playing = FALSE
    /\ running = TRUE
    /\ pc = "import"
    /\ call = NoCall

\* The main loop is entered only when no statement before it raised.
NextConstruct ==
    \/ Construct
    \/ pc = "loop" /\ Next

SpecConstruct == InitConstruct /\ [][NextConstruct]_vars

---------------------------------------------------------------------------
(* Reference definitions for the properties: the rules and the two         *)
(* neighbourhoods, stated without the loops of update_grid.                *)

MooreOffsets == ({-1, 0, 1} \X {-1, 0, 1}) \ {<<0, 0>>}

\* Conway's rule: the next state of a cell from its state and its count.
LifeRule(state, n) ==
    IF state = 1
    THEN (IF n = 2 \/ n = 3 THEN 1 ELSE 0)
    ELSE (IF n = 3 THEN 1 ELSE 0)

\* Index x, one step outside 0..n-1 at most, taken to the opposite side.
WrapIndex(x, n) == IF x < 0 THEN x + n ELSE IF x >= n THEN x - n ELSE x

InRange(r, c) == 0 <= r /\ r < ROWS /\ 0 <= c /\ c < COLS

\* The offsets of (row, col) that lead to an alive cell of g: on the torus,
\* and among the in-range neighbours only.
AliveOffsetsWrapped(g, row, col) ==
    {o \in MooreOffsets :
        g[WrapIndex(row + o[1], ROWS)][WrapIndex(col + o[2], COLS)] = 1}

AliveOffsetsBounded(g, row, col) ==
    {o \in MooreOffsets :
        InRange(row + o[1], col + o[2]) /\ g[row + o[1]][col + o[2]] = 1}

OffsetCount(g, row, col, wrap) ==
    IF wrap
    THEN Cardinality(AliveOffsetsWrapped(g, row, col))
    ELSE Cardinality(AliveOffsetsBounded(g, row, col))

\* The cells other than (row, col) within one step of it in both axes.
Near(a, b) == a = b \/ a = b + 1 \/ b = a + 1

MooreCells(row, col) ==
    {cell \in Cells :
        cell # <<row, col>> /\ Near(cell[1], row) /\ Near(cell[2], col)}

\* The cells the eight offsets of (row, col) lead to in wrapped mode.
WrappedCells(row, col) ==
    {wrapped_coord(row + o[1], col + o[2]) : o \in MooreOffsets}

AliveIn(g, cells) == {cell \in cells : g[cell[1]][cell[2]] = 1}

AllDead(g) == \A cell \in Cells : g[cell[1]][cell[2]] = 0

Advanced == call.fn = "update_grid"

---------------------------------------------------------------------------
(* Properties of the generation advance, under SpecAdvance.                *)

\* C1: after update_grid, every cell of the result is Conway's rule applied
\* to the cell's state in the input grid and its number of alive neighbours
\* in the input grid, under either value of the wrap flag; no cell of the
\* result is read.
C1_RuleOnOldGrid ==
    Advanced =>
        /\ DOMAIN grid = DOMAIN call.grid
        /\ \A cell \in Cells :
              grid[cell[1]][cell[2]] =
                  LifeRule(call.grid[cell[1]][cell[2]],
                           OffsetCount(call.grid, cell[1], cell[2], call.wrap))

\* An advance in which one cell died, another was born next to it and a
\* third survived.
C1_Witness ==
    /\ Advanced
    /\ \E a \in Cells, b \in Cells, c \in Cells :
          /\ call.grid[a[1]][a[2]] = 1 /\ grid[a[1]][a[2]] = 0
          /\ call.grid[b[1]][b[2]] = 0 /\ grid[b[1]][b[2]] = 1
          /\ call.grid[c[1]][c[2]] = 1 /\ grid[c[1]][c[2]] = 1
          /\ b \in MooreCells(a[1], a[2])

\* C2: in wrapped mode the count of (row, col) is the number of offsets
\* (i, j) other than (0, 0) whose cell, with an index past an edge taken to
\* the opposite side, is alive; in the 3x3 grid whose only alive cell is
\* (0, 0) the count at (2, 2) is 1.
C2_WrappedCount ==
    (Advanced /\ call.wrap) =>
        /\ \A cell \in Cells :
              alive_neighbors(call.grid, cell[1], cell[2], TRUE) =
                  Cardinality(AliveOffsetsWrapped(call.grid, cell[1], cell[2]))
        /\ (ROWS = 3 /\ COLS = 3 /\ call.grid = GridOf(3, 3, {<<0, 0>>}))
              => alive_neighbors(call.grid, 2, 2, TRUE) = 1

\* The wrapped advance of the 3x3 grid whose only alive cell is (0, 0).
C2_Witness ==
    /\ Advanced /\ call.wrap
    /\ ROWS = 3 /\ COLS = 3
    /\ call.grid = GridOf(3, 3, {<<0, 0>>})

\* C3: in bounded mode the count of (row, col) is the number of alive cells
\* among its Moore neighbours that lie inside the grid, it is between 0 and
\* 8, and on a grid of at least 3x3 with every cell alive it is 3 at a
\* corner, 5 at an edge cell that is no corner and 8 inside.
C3_BoundedCount ==
    (Advanced /\ ~call.wrap) =>
        /\ \A cell \in Cells :
              LET n == alive_neighbors(call.grid, cell[1], cell[2], FALSE)
              IN  /\ n = Cardinality(AliveIn(call.grid, MooreCells(cell[1], cell[2])))
                  /\ 0 <= n /\ n <= 8
        /\ (ROWS >= 3 /\ COLS >= 3 /\ call.grid = GridOf(ROWS, COLS, Cells))
              => \A cell \in Cells :
                    LET onRowEdge == cell[1] = 0 \/ cell[1] = ROWS - 1
                        onColEdge == cell[2] = 0 \/ cell[2] = COLS - 1
                    IN  alive_neighbors(call.grid, cell[1], cell[2], FALSE) =
                            IF onRowEdge /\ onColEdge THEN 3
                            ELSE IF onRowEdge \/ onColEdge THEN 5
                            ELSE 8

\* The bounded advance of the largest grid with every cell alive.
C3_Witness ==
    /\ Advanced /\ ~call.wrap
    /\ ROWS = PatternDim /\ COLS = PatternDim
    /\ call.grid = GridOf(ROWS, COLS, Cells)

\* C4 as stated: in wrapped mode, for every grid of at least 1x1, the
\* eight wrapped coordinates of a cell are 8 distinct cells, none of them
\* the cell itself, and the count is the number of alive cells among them.
C4_EightDistinctAnySize ==
    (Advanced /\ call.wrap) =>
        \A cell \in Cells :
            /\ Cardinality(WrappedCells(cell[1], cell[2])) = 8
            /\ cell \notin WrappedCells(cell[1], cell[2])
            /\ alive_neighbors(call.grid, cell[1], cell[2], TRUE) =
                   Cardinality(AliveIn(call.grid, WrappedCells(cell[1], cell[2])))

\* C4, amended: in wrapped mode, on a grid of at least 3x3, the eight
\* wrapped coordinates of a cell are 8 distinct cells, none of them the cell
\* itself, and the count is the number of alive cells among them: the
\* cell's own state does not contribute and no neighbour is counted twice.
C4_EightDistinctFrom3x3 ==
    (Advanced /\ call.wrap /\ ROWS >= 3 /\ COLS >= 3) =>
        \A cell \in Cells :
            /\ Cardinality(WrappedCells(cell[1], cell[2])) = 8
            /\ cell \notin WrappedCells(cell[1], cell[2])
            /\ alive_neighbors(call.grid, cell[1], cell[2], TRUE) =
                   Cardinality(AliveIn(call.grid, WrappedCells(cell[1], cell[2])))

\* A wrapped advance of a 3x3 grid with every cell alive: each count is 8.
C4_Witness ==
    /\ Advanced /\ call.wrap
    /\ ROWS = 3 /\ COLS = 3
    /\ call.grid = GridOf(3, 3, Cells)
    /\ alive_neighbors(call.grid, 0, 0, TRUE) = 8

\* C8: on a bounded grid of at least 5x5, the advance of the horizontal
\* triple (2,1),(2,2),(2,3) is exactly the vertical triple (1,2),(2,2),(3,2)
\* and the advance of the vertical triple is exactly the horizontal one, so
\* with no edit in between the two forms alternate for ever.
C8_BlinkerPeriodTwo ==
    (Advanced /\ ~call.wrap /\ ROWS >= 5 /\ COLS >= 5) =>
        /\ call.grid = GridOf(ROWS, COLS, HorizontalTriple)
              => grid = GridOf(ROWS, COLS, VerticalTriple)
        /\ call.grid = GridOf(ROWS, COLS, VerticalTriple)
              => grid = GridOf(ROWS, COLS, HorizontalTriple)

\* The second advance: no grid starts as the vertical triple, so it was
\* itself produced by an advance, and this advance gave the horizontal
\* triple back.
C8_Witness ==
    /\ Advanced /\ ~call.wrap
    /\ ROWS = 5 /\ COLS = 5
    /\ call.grid = GridOf(ROWS, COLS, VerticalTriple)
    /\ grid = GridOf(ROWS, COLS, HorizontalTriple)

\* C9: on a grid of at least 4x4, bounded or wrapped, the advance of the
\* 2x2 block (1,1),(1,2),(2,1),(2,2) is the same grid.
C9_BlockStillLife ==
    (Advanced /\ ROWS >= 4 /\ COLS >= 4
        /\ call.grid = GridOf(ROWS, COLS, Block)) =>
            grid = GridOf(ROWS, COLS, Block)

\* A wrapped advance of the block on the 4x4 grid, where the block's
\* neighbourhood reaches round the torus.
C9_Witness ==
    /\ Advanced /\ call.wrap
    /\ ROWS = 4 /\ COLS = 4
    /\ call.grid = GridOf(ROWS, COLS, Block)
    /\ grid = call.grid

\* C10: the advance of an all-dead grid, of any size and under either
\* topology, is all dead; without an edit an all-dead grid stays all dead.
C10_EmptyStaysEmpty ==
    (Advanced /\ AllDead(call.grid)) => AllDead(grid)

\* A wrapped advance of the largest all-dead grid.
C10_Witness ==
    /\ Advanced /\ call.wrap
    /\ ROWS = PatternDim /\ COLS = PatternDim
    /\ AllDead(call.grid)
    /\ AllDead(grid)

---------------------------------------------------------------------------
(* Properties of the cell edit and of the reset, under Spec.               *)

\* The pointer is on the square draw_cells paints for the cell (line 195).
PointInCell(pos, cell) ==
    /\ cell[2] * CELL_SIZE <= pos[1] /\ pos[1] < (cell[2] + 1) * CELL_SIZE
    /\ cell[1] * CELL_SIZE <= pos[2] /\ pos[2] < (cell[1] + 1) * CELL_SIZE

\* The pointer is above, below, left or right of every cell's square.
PointOutsideGrid(pos) ==
    \/ pos[1] < 0 \/ pos[1] >= COLS * CELL_SIZE
    \/ pos[2] < 0 \/ pos[2] >= ROWS * CELL_SIZE

Toggled == call.fn = "toggle_cell"

WasReset == call.fn = "zeros"

\* C5: toggle_cell with the pointer on a cell sets that cell to 1 in draw
\* mode and to 0 in erase mode whatever it held, leaves every other cell as
\* it was, and the same call made again changes nothing.
C5_ToggleSetsCell ==
    Toggled =>
        \A cell \in Cells :
            PointInCell(call.pos, cell) =>
                /\ grid[cell[1]][cell[2]] = (IF call.draw_mode THEN 1 ELSE 0)
                /\ \A other \in Cells \ {cell} :
                      grid[other[1]][other[2]] = call.grid[other[1]][other[2]]
                /\ toggle_cell(grid, call.pos, call.draw_mode) = grid

\* An erase on a dead cell, beside an alive one: the cell stays dead.
C5_Witness ==
    /\ Toggled /\ ~call.draw_mode
    /\ \E cell \in Cells, other \in Cells :
          /\ PointInCell(call.pos, cell)
          /\ call.grid[cell[1]][cell[2]] = 0
          /\ grid[cell[1]][cell[2]] = 0
          /\ other # cell
          /\ grid[other[1]][other[2]] = 1

\* C6: toggle_cell with the pointer outside the grid, on any side of it,
\* the side panel included, leaves every cell as it was.
C6_OutsideIgnored ==
    (Toggled /\ PointOutsideGrid(call.pos)) => grid = call.grid

\* A drag in erase mode that reached the side panel, over a grid with an
\* alive cell.
C6_Witness ==
    /\ Toggled /\ ~call.draw_mode
    /\ call.pos[1] >= GRID_WIDTH
    /\ PointOutsideGrid(call.pos)
    /\ mouse_held
    /\ ~AllDead(grid)

\* C7: after R in the game the grid has the dimensions it had and every
\* cell is dead, and it is the grid a further reset gives.
C7_ResetAllDead ==
    WasReset =>
        /\ DOMAIN grid = DOMAIN call.grid
        /\ \A row \in DOMAIN grid : DOMAIN grid[row] = DOMAIN call.grid[row]
        /\ AllDead(grid)
        /\ zeros(ROWS, COLS) = grid

\* A reset of a 2x2 grid with an alive cell while the simulation runs.
C7_Witness ==
    /\ WasReset
    /\ ROWS = 2 /\ COLS = 2
    /\ ~AllDead(call.grid)
    /\ playing

---------------------------------------------------------------------------
(* Properties of the whole main loop, under Spec.                          *)

\* The next generation as a function of the grid and the flag alone.
LifeStep(g, wrap) ==
    [row \in DOMAIN g |-> [col \in DOMAIN g[row] |->
        LifeRule(g[row][col], OffsetCount(g, row, col, wrap))]]

\* C11: the grid update_grid returns is a function of its input grid and of
\* the wrap flag alone: whatever the draw mode, the speed, the colour, the
\* mouse state and the generations before, the same grid and flag give the
\* same result.
C11_DependsOnGridAndFlag ==
    Advanced => grid = LifeStep(call.grid, call.wrap)

\* An advance that changed the grid, made in erase mode with the button
\* held, the speed and the colour changed, and after an earlier advance had
\* left cells alive.
C11_Witness ==
    /\ Advanced
    /\ grid # call.grid
    /\ ~AllDead(grid)
    /\ ~draw_mode /\ mouse_held
    /\ speed # InitialSpeed /\ cell_color # GREEN

\* C12: in every reachable state the grid is a matrix of ROWS rows and COLS
\* columns, the dimensions it was constructed with, and every cell holds 0
\* or 1.
C12_GridShape ==
    /\ DOMAIN grid = 0..(ROWS - 1)
    /\ \A row \in DOMAIN grid :
          /\ DOMAIN grid[row] = 0..(COLS - 1)
          /\ \A col \in DOMAIN grid[row] : grid[row][col] \in {0, 1}
    /\ grid \in AllGrids(ROWS, COLS)

\* A 2x2 grid with dead and alive cells after edits, a change of the draw
\* mode and an advance.
C12_Witness ==
    /\ Advanced /\ ~draw_mode
    /\ ROWS = 2 /\ COLS = 2
    /\ ~AllDead(grid)
    /\ \E cell \in Cells : grid[cell[1]][cell[2]] = 0

\* C13: a step that handles the key R in the game leaves playing,
\* wrap_enabled, draw_mode, mouse_held, speed, cell_color and app_state as
\* they were, and a step that handles R in the start menu leaves the grid
\* and every other variable of the program as it was.
C13_ResetFrame ==
    [][KeyDown("K_r") =>
          /\ UNCHANGED <<playing, wrap_enabled, draw_mode, mouse_held, speed,
                         cell_color, app_state>>
          /\ app_state = START_MENU =>
                UNCHANGED <<ROWS, COLS, grid, running, pc>>]_vars

\* A reset of a grid with an alive cell while the simulation runs with the
\* button held and every setting changed from its default.
C13_Witness ==
    /\ WasReset
    /\ ~AllDead(call.grid)
    /\ playing /\ mouse_held
    /\ ~wrap_enabled /\ ~draw_mode
    /\ speed # InitialSpeed /\ cell_color # GREEN

---------------------------------------------------------------------------
(* Properties of the start of the program, under SpecConstruct.            *)

Constructed == call.fn = "construct"

\* C14: once the statements that build the grid have run, either a
\* dimension was 0 or less, the program stopped with an error and no grid
\* was produced, or both were positive, no error was raised and the grid
\* produced has ROWS rows of COLS dead cells.
C14_InvalidDimension ==
    pc # "import" =>
        IF ROWS <= 0 \/ COLS <= 0
        THEN pc \in Errors /\ grid = Unbound
        ELSE /\ pc \notin Errors
             /\ Constructed => grid = GridOf(ROWS, COLS, {})

---------------------------------------------------------------------------
(* Properties of the steps of the main loop, under Spec.                   *)

\* The step handles some mouse event.
MouseEvent ==
    \/ \E button \in MouseButtons, pos \in Positions : MouseButtonDown(button, pos)
    \/ \E button \in MouseButtons : MouseButtonUp(button)
    \/ \E pressed \in BOOLEAN, pos \in Positions : MouseMotion(pos, pressed)

\* The step handles a left click on the wrap button of the current screen.
WrapButtonClick ==
    \E pos \in Positions :
        /\ MouseButtonDown(1, pos)
        /\ IF app_state = START_MENU
           THEN collidepoint(start_menu_buttons.wrap, pos)
           ELSE collidepoint(panel_buttons.wrap, pos)

\* The step handles an input other than SPACE, R, the release of the left
\* button and QUIT.
OtherInput ==
    \/ \E button \in MouseButtons, pos \in Positions : MouseButtonDown(button, pos)
    \/ MouseButtonUp(3)
    \/ \E pressed \in BOOLEAN, pos \in Positions : MouseMotion(pos, pressed)
    \/ KeyDown("K_RETURN")

Simulating == app_state = GAME /\ playing

\* C15: every step that calls toggle_cell starts in a state with app_state =
\* GAME and playing false, and a step that handles a mouse event while
\* playing is true leaves the grid as it was, the button held or not.
C15_EditOnlyWhilePaused ==
    [][/\ call'.fn = "toggle_cell" => app_state = GAME /\ ~playing
       /\ (playing /\ MouseEvent) => grid' = grid]_vars

\* An erase by a paused drag that changed the grid.
C15_Witness ==
    /\ Toggled /\ ~call.draw_mode
    /\ app_state = GAME /\ ~playing /\ mouse_held
    /\ grid # call.grid

\* C16: the end of a pass of the main loop calls update_grid once, on the
\* grid and flag of that moment, if app_state = GAME and playing is true,
\* and not at all otherwise; no other step calls it; and a step that
\* changes the grid while the game is paused or the start menu is shown is
\* a call of toggle_cell or a reset.
C16_OneAdvancePerTick ==
    [][/\ Tick =>
             IF Simulating
             THEN /\ call' = UpdateCall(grid, wrap_enabled)
                  /\ grid' = update_grid(grid, wrap_enabled)
             ELSE /\ call'.fn # "update_grid"
                  /\ grid' = grid
       /\ call'.fn = "update_grid" => Simulating /\ Tick
       /\ (~Simulating /\ grid' # grid) => call'.fn \in {"toggle_cell", "zeros"}]_vars

\* An advance that changed the grid of a running game, with the button not
\* held.
C16_Witness ==
    /\ Advanced /\ Simulating /\ ~mouse_held
    /\ grid # call.grid
    /\ AllDead(grid)

\* C17: a step that calls update_grid passes it the current wrap_enabled
\* and leaves wrap_enabled as it was, and wrap_enabled changes only by a
\* left click on a wrap button, which inverts it; so each advance uses the
\* value the last such click left.
C17_WrapBetweenAdvances ==
    [][/\ call'.fn = "update_grid" =>
             /\ call'.wrap = wrap_enabled
             /\ wrap_enabled' = wrap_enabled
       /\ wrap_enabled' # wrap_enabled =>
             /\ WrapButtonClick
             /\ wrap_enabled' = ~wrap_enabled]_vars

\* A bounded advance, after a click on a wrap button, whose result differs
\* from the wrapped advance of the same grid.
C17_Witness ==
    /\ Advanced /\ ~call.wrap /\ ~wrap_enabled
    /\ grid # update_grid(call.grid, TRUE)

\* C18: while app_state = GAME and playing is true, no step changes
\* wrap_enabled, draw_mode, speed or cell_color, and a step that handles an
\* input other than SPACE, R, the release of the left button and QUIT
\* changes nothing of the program's state.
C18_RunningFrame ==
    [][Simulating =>
          /\ UNCHANGED <<wrap_enabled, draw_mode, speed, cell_color>>
          /\ OtherInput =>
                UNCHANGED <<ROWS, COLS, grid, app_state, mouse_held, playing,
                            running, pc>>]_vars

\* A running game that has just advanced, with the button held since
\* before the start and every setting changed from its default.
C18_Witness ==
    /\ Advanced /\ Simulating /\ mouse_held
    /\ ~wrap_enabled /\ ~draw_mode
    /\ speed # InitialSpeed /\ cell_color # GREEN

\* C19: in every state with app_state = START_MENU the grid is all dead,
\* playing is false and mouse_held is false, and no step leaves GAME.
C19_StartMenu ==
    /\ [](app_state = START_MENU =>
             AllDead(grid) /\ ~playing /\ ~mouse_held)
    /\ [][app_state = GAME => app_state' = GAME]_vars

\* The start menu after clicks and a slider drag changed the colour, the
\* topology and the speed.
C19_Witness ==
    /\ app_state = START_MENU
    /\ cell_color # GREEN /\ ~wrap_enabled /\ speed # InitialSpeed
    /\ AllDead(grid) /\ ~playing /\ ~mouse_held

\* C20: a step that handles SPACE inverts playing in the game, leaves it in
\* the start menu, and leaves the grid, wrap_enabled, draw_mode, speed,
\* cell_color, mouse_held and the rest of the program's state as they
\* were; mouse_held becomes false only by the release of the left button.
C20_SpaceFrame ==
    [][/\ KeyDown("K_SPACE") =>
             /\ playing' = (IF app_state = GAME THEN ~playing ELSE playing)
             /\ UNCHANGED <<ROWS, COLS, grid, wrap_enabled, draw_mode, speed,
                            cell_color, mouse_held, app_state, running, pc>>
       /\ (mouse_held /\ ~mouse_held') => MouseButtonUp(1)]_vars

\* The state SPACE leaves when it starts the game during a press made
\* while paused: playing with the button still held, on a drawn grid.
C20_Witness ==
    /\ Simulating /\ mouse_held
    /\ call = NoCall
    /\ ~AllDead(grid)

=============================================================================
